---- MODULE Spec2Model ----
(***************************************************************************)
(* NetworkDiagnosisTool: parallel TTL-sweep hop discovery (runTraceroute), *)
(* cycle-based statistics aggregation (runMtrCycles) and the facade        *)
(* NetworkDiagnosisTool.run that composes them.                            *)
(*                                                                         *)
(* Representation of numbers.  Round-trip times are whole milliseconds.    *)
(* A JavaScript number that is a quotient (avg, loss) is the exact         *)
(* rational <<n, d>>; stat.stdev is kept as its square, the rational       *)
(* variance.  A number that went through toFixed(1) is the integer count   *)
(* of tenths (66.7 is 667).                                                *)
(*                                                                         *)
(* Representation of a batch of TTL probes.  Every probe of a batch whose  *)
(* close handler found no qualifying line resolves to the same value but   *)
(* for its TTL, {hop: ttl, ip: '*', reached: false}, and is dropped at the *)
(* join; the model keeps their number (timedOut) and keeps the resolved    *)
(* value of every other probe by TTL (replies).  A probe is in flight      *)
(* while its promise is pending.                                           *)
(***************************************************************************)
EXTENDS Integers, Sequences, FiniteSets, TLC

\* ------------------------------------------------------------ bounds
\* most probes of one discovery that elicit a reply
MaxReplies == 2
\* the TTLs at which a router or the destination can answer a probe
ReplyTtls == {1, 2, 11, 21}
\* largest cycle count a direct caller hands to runMtrCycles
MaxCycles == 3
\* largest mtrDuration a tool is constructed with
MaxDuration == 2
\* round-trip times (ms) a direct probe can report
RTTs == {10, 12, 14}
\* the round-trip time the network reports under the facade
FacadeRTTs == {10}
\* the milliseconds a reply line of a TTL probe can show
LineTimes == {23}
\* longest output, in lines, handed to the close handler of probeHop on its own
MaxLines == 2
\* most numbers followed by ms in the output of executePing on its own
MaxValues == 2
\* most run() calls on one tool
MaxRuns == 2
\* most probes of one discovery that elicit a reply when several diagnoses
\* follow one another
SequenceReplies == 0
\* addresses
TargetIPs == {"t"}
HopIPs == {"a"}

\* ------------------------------------------------------------ constants
MAX_HOPS == 30
BATCH_SIZE == 10
Infinity == 1000000
Null == -1
Undefined == "undefined"

VARIABLES
    \* runTraceroute
    trPc,           \* "idle" | "batch" (awaiting Promise.all) | "done" | "rejected"
    trTarget,       \* targetIP
    i,              \* first TTL of the batch in flight
    hops,           \* retained results
    targetReached,
    replies,        \* TTL -> resolved value, for the probes of the batch that resolved with ip # '*'
    timedOut,       \* number of probes of the batch that resolved with ip = '*'
    finalHops,      \* the returned list
    spawned,        \* the TTLs a ping process was spawned for, in order
    closeOrder,     \* the TTLs of replies, in the order their probes resolved
    crashed,        \* whether a process of the batch in flight emitted 'error'
    \* runMtrCycles
    mtrPc,          \* "idle" | "cycle" (awaiting Promise.all) | "delay" (awaiting the timer) | "done"
    mtrHops,        \* the hops argument
    cycles,         \* the cycles argument
    cycle,          \* loop variable
    hopStats,
    pinging,        \* positions of hopStats whose executePing promise is pending
    snapshots,      \* the arguments of the progressCallback invocations, in order
    mtrResult,      \* the returned list
    progressCallback, \* whether a progressCallback was passed
    pinged,         \* per position of hopStats, the number of executePing calls
    delays,         \* the number of inter-cycle timers set
    netRtts,        \* the round-trip times the network under test can report
    netReplies,     \* most probes of one discovery the network under test answers
    \* probeHop on its own
    probePc,        \* "none" | "pending" | "closed" | "failed"
    probeTtl,       \* ttl
    probeTarget,    \* targetIP
    probeOutput,    \* what the process prints until it closes
    probeResult,    \* the value the promise resolved with
    \* executePing on its own
    pingPc,         \* "none" | "pending" | "closed" | "failed"
    pingOutput,     \* what the process prints until it closes
    pingResult,     \* the value the promise resolved with
    \* NetworkDiagnosisTool
    runPc,          \* "idle" | "public_ip" | "dns" | "trace" | "ping" | "finished"
    targetDomains,
    mtrDuration,
    domIdx,         \* position of the for-of loop in targetDomains
    targetIP,
    diagnosis,      \* this.results.diagnosis
    events          \* the arguments of the stepwise callback invocations, in order

trVars == <<trPc, trTarget, i, hops, targetReached, replies, timedOut, finalHops,
           spawned, closeOrder, crashed>>
mtrVars == <<mtrPc, mtrHops, cycles, cycle, hopStats, pinging, snapshots, mtrResult, progressCallback,
            pinged, delays>>
runVars == <<runPc, targetDomains, mtrDuration, domIdx, targetIP, diagnosis, events>>
probeVars == <<probePc, probeTtl, probeTarget, probeOutput, probeResult>>
pingVars == <<pingPc, pingOutput, pingResult>>
netVars == <<netRtts, netReplies>>
vars == <<trVars, mtrVars, netVars, probeVars, pingVars, runVars>>

\* ============================================================ runTraceroute

\* A line of ping output, as the regular expressions of the close handler see
\* it: the first address-shaped token after clean-up ("" if none), the digits
\* the time marker matches (Null if it does not match), whether a
\* bytes/sequence marker matches.
Line(ip, time, bytes) == [ip |-> ip, time |-> time, bytes |-> bytes]

\* the scan in which a reply of the target on any line beats the address of
\* an earlier line
ScanLinesDestinationWins(lines, target) ==
    IF \E k \in 1..Len(lines) : lines[k].ip = target /\ (lines[k].time # Null \/ lines[k].bytes)
    THEN [ip |-> target, reached |-> TRUE]
    ELSE IF \E k \in 1..Len(lines) : lines[k].ip \notin {"", target}
    THEN [ip |-> lines[CHOOSE k \in 1..Len(lines) :
                          /\ lines[k].ip \notin {"", target}
                          /\ \A j \in 1..(k - 1) : lines[j].ip \in {"", target}].ip,
          reached |-> FALSE]
    ELSE [ip |-> "*", reached |-> FALSE]

\* the scan with only the bytes/sequence marker as evidence of a reply
RECURSIVE ScanLinesBytesOnly(_, _)
ScanLinesBytesOnly(lines, target) ==
    IF lines = <<>> THEN [ip |-> "*", reached |-> FALSE]
    ELSE LET line == Head(lines) IN
         IF line.ip = "" THEN ScanLinesBytesOnly(Tail(lines), target)
         ELSE IF line.ip # target THEN [ip |-> line.ip, reached |-> FALSE]
         ELSE IF line.bytes THEN [ip |-> target, reached |-> TRUE]
         ELSE ScanLinesBytesOnly(Tail(lines), target)

\* the scan asking for evidence of a reply on every line, whatever its address
RECURSIVE ScanLinesEvidenceFirst(_, _)
ScanLinesEvidenceFirst(lines, target) ==
    IF lines = <<>> THEN [ip |-> "*", reached |-> FALSE]
    ELSE LET line == Head(lines) IN
         IF line.ip = "" THEN ScanLinesEvidenceFirst(Tail(lines), target)
         ELSE IF ~(line.time # Null \/ line.bytes) THEN ScanLinesEvidenceFirst(Tail(lines), target)
         ELSE IF line.ip # target THEN [ip |-> line.ip, reached |-> FALSE]
         ELSE [ip |-> target, reached |-> TRUE]

\* the loop over the lines of the output: lines 54-85
RECURSIVE ScanLines(_, _)
ScanLines(lines, target) ==
    IF lines = <<>> THEN [ip |-> "*", reached |-> FALSE]
    ELSE LET line == Head(lines) IN
         IF line.ip = "" THEN ScanLines(Tail(lines), target)
         ELSE IF line.ip # target THEN [ip |-> line.ip, reached |-> FALSE]
         ELSE IF line.time # Null \/ line.bytes THEN [ip |-> target, reached |-> TRUE]
         ELSE ScanLines(Tail(lines), target)

\* the value the 'close' handler of probeHop(ttl) resolves with
probeHopClose(ttl, output, target) ==
    LET r == ScanLines(output, target)
    IN  [hop |-> ttl, ip |-> r.ip, reached |-> r.reached, rtt1 |-> Undefined]

\* the 'error' handler resolving with a reply of the target
probeHopErrorReached(ttl) == [hop |-> ttl, ip |-> "t", reached |-> TRUE, rtt1 |-> Undefined]

\* the value the 'error' handler of probeHop(ttl) resolves with
probeHopError(ttl) == [hop |-> ttl, ip |-> "*", reached |-> FALSE, rtt1 |-> Undefined]

\* what a ping -t ttl of the target can print
ProbeOutputs(target) ==
    LET banner == Line(target, Null, FALSE)
    IN  {<<>>, <<banner>>} \cup {<<banner, Line(target, ms, TRUE)>> : ms \in LineTimes}
        \cup {<<banner, Line(a, Null, TRUE)>> : a \in HopIPs}

\* the lines the close handler of a probe run on its own can be handed
OutputLines ==
    {Line(ip, time, bytes) : ip \in {""} \cup TargetIPs \cup HopIPs,
                             time \in {Null} \cup LineTimes, bytes \in BOOLEAN}

RECURSIVE OutputsUpTo(_)
OutputsUpTo(n) ==
    IF n = 0 THEN {<<>>}
    ELSE LET shorter == OutputsUpTo(n - 1)
         IN  shorter \cup {Append(o, l) : o \in shorter, l \in OutputLines}

\* 'close' of the process of a probe run on its own: lines 48-92
ProbeHopClose ==
    /\ probePc = "pending"
    /\ probeResult' = probeHopClose(probeTtl, probeOutput, probeTarget)
    /\ probePc' = "closed"
    /\ UNCHANGED <<probeTtl, probeTarget, probeOutput>>
    /\ UNCHANGED <<trVars, mtrVars, netVars, pingVars, runVars>>

\* 'error' of the process of a probe run on its own: line 94
ProbeHopError ==
    /\ probePc = "pending"
    /\ probeResult' = probeHopError(probeTtl)
    /\ probePc' = "failed"
    /\ UNCHANGED <<probeTtl, probeTarget, probeOutput>>
    /\ UNCHANGED <<trVars, mtrVars, netVars, pingVars, runVars>>

\* every remaining TTL in one batch
endTtlAll(first) == MAX_HOPS

\* the inner loop bound: lines 103-104
endTtl(first) == IF first + BATCH_SIZE - 1 < MAX_HOPS THEN first + BATCH_SIZE - 1 ELSE MAX_HOPS

\* the array Promise.all resolves with: one value per TTL of the batch, in TTL order
RECURSIVE BatchResults(_, _, _)
BatchResults(from, to, got) ==
    IF from > to THEN <<>>
    ELSE <<IF from \in DOMAIN got THEN got[from] ELSE probeHopError(from)>>
         \o BatchResults(from + 1, to, got)

\* every result pushed, timeouts included
RetainedAll(results) == results

\* the results pushed to hops: lines 111-114
Retained(results) == SelectSeq(results, LAMBDA res : res.ip # "*")

Observed(results, target) ==
    \E k \in 1..Len(results) : results[k].reached \/ results[k].ip = target

RECURSIVE Insert(_, _)
Insert(h, sorted) ==
    IF sorted = <<>> THEN <<h>>
    ELSE IF h.hop < Head(sorted).hop THEN <<h>> \o sorted
    ELSE <<Head(sorted)>> \o Insert(h, Tail(sorted))

\* the comparator reversed
RECURSIVE SortByHopDescending(_)
SortByHopDescending(list) ==
    IF list = <<>> THEN <<>>
    ELSE LET m == CHOOSE k \in 1..Len(list) : \A j \in 1..Len(list) : list[j].hop <= list[k].hop
         IN  <<list[m]>> \o SortByHopDescending(SubSeq(list, 1, m - 1) \o SubSeq(list, m + 1, Len(list)))

RECURSIVE SortByHop(_)
SortByHop(list) ==
    IF list = <<>> THEN <<>>
    ELSE Insert(list[Len(list)], SortByHop(SubSeq(list, 1, Len(list) - 1)))

\* the truncation loop without its break
TruncateNoBreak(list, target) == list

\* the truncation loop cutting after the last hop with the target address
RECURSIVE TruncateAtLast(_, _)
TruncateAtLast(list, target) ==
    IF list = <<>> THEN <<>>
    ELSE IF Head(list).ip = target /\ \A k \in 2..Len(list) : list[k].ip # target THEN <<Head(list)>>
    ELSE <<Head(list)>> \o TruncateAtLast(Tail(list), target)

RECURSIVE Truncate(_, _)
Truncate(list, target) ==
    IF list = <<>> THEN <<>>
    ELSE IF Head(list).ip = target THEN <<Head(list)>>
    ELSE <<Head(list)>> \o Truncate(Tail(list), target)

NoReplies == [t \in {} |-> probeHopError(t)]

InFlight == IF trPc = "batch" THEN (endTtl(i) - i + 1) - timedOut - Cardinality(DOMAIN replies) ELSE 0

RECURSIVE Ttls(_, _)
Ttls(from, to) == IF from > to THEN <<>> ELSE <<from>> \o Ttls(from + 1, to)

\* the message of the error a synchronous failure of spawn raises
SpawnFailure == "spawn failed"

\* the promises of the batch that starts at TTL first are created: lines
\* 101-106.  Either spawn starts a process for every TTL of the batch, or (ok
\* false) process creation is unusable: spawn throws inside the executor of
\* every promise (lines 18, 42), the promises are rejected and so is
\* Promise.all, which nothing in runTraceroute catches.
SpawnBatch(first, before, ok) ==
    /\ i' = first
    /\ replies' = NoReplies
    /\ timedOut' = 0
    /\ closeOrder' = <<>>
    /\ crashed' = FALSE
    /\ IF ok
       THEN /\ trPc' = "batch"
            /\ spawned' = before \o Ttls(first, endTtl(first))
       ELSE /\ trPc' = "rejected"
            /\ spawned' = before

\* the call: the first batch is spawned before the first await
CallTraceroute(target) ==
    /\ trTarget' = target
    /\ hops' = <<>>
    /\ targetReached' = FALSE
    /\ finalHops' = <<>>
    /\ \E ok \in BOOLEAN : SpawnBatch(1, <<>>, ok)

CanReply(ttl) ==
    /\ ttl \in ReplyTtls
    /\ Len(hops) + Cardinality(DOMAIN replies) < netReplies

\* 'close' of one probe process of the batch
ProbeClose ==
    /\ trPc = "batch"
    /\ InFlight > 0
    /\ \E ttl \in (i..endTtl(i)) \ DOMAIN replies, output \in ProbeOutputs(trTarget) :
          LET res == probeHopClose(ttl, output, trTarget) IN
          IF res.ip = "*"
          THEN /\ timedOut' = timedOut + 1
               /\ UNCHANGED <<replies, closeOrder>>
          ELSE /\ CanReply(ttl)
               /\ replies' = (ttl :> res) @@ replies
               /\ closeOrder' = Append(closeOrder, ttl)
               /\ UNCHANGED timedOut
    /\ UNCHANGED <<trPc, trTarget, i, hops, targetReached, finalHops, spawned, crashed>>
    /\ UNCHANGED <<mtrVars, netVars, probeVars, pingVars, runVars>>

\* 'error' of one probe process of the batch
ProbeError ==
    /\ trPc = "batch"
    /\ InFlight > 0
    /\ timedOut' = timedOut + 1
    /\ crashed' = TRUE
    /\ UNCHANGED <<trPc, trTarget, i, hops, targetReached, replies, finalHops, spawned, closeOrder>>
    /\ UNCHANGED <<mtrVars, netVars, probeVars, pingVars, runVars>>

\* the sweep going on whether or not the target was reached
SweepIgnoresReached(next, reached) == next <= MAX_HOPS

\* the head of the outer loop: lines 99-100
SweepContinues(next, reached) == next <= MAX_HOPS /\ ~reached

\* Promise.all of the batch resolved: lines 109-131
BatchJoin ==
    /\ trPc = "batch"
    /\ InFlight = 0
    /\ LET results == BatchResults(i, endTtl(i), replies)
           kept == hops \o Retained(results)
           reached == targetReached \/ Observed(results, trTarget)
       IN  /\ hops' = kept
           /\ targetReached' = reached
           /\ IF SweepContinues(i + BATCH_SIZE, reached)
              THEN /\ \E ok \in BOOLEAN : SpawnBatch(i + BATCH_SIZE, spawned, ok)
                   /\ UNCHANGED finalHops
              ELSE /\ trPc' = "done"
                   /\ finalHops' = Truncate(SortByHop(kept), trTarget)
                   /\ replies' = NoReplies
                   /\ timedOut' = 0
                   /\ crashed' = FALSE
                   /\ UNCHANGED <<i, spawned, closeOrder>>
    /\ UNCHANGED trTarget
    /\ UNCHANGED <<mtrVars, netVars, probeVars, pingVars, runVars>>

\* ============================================================ runMtrCycles

\* what the regular expression of executePing finds in the output of a direct
\* ping: the millisecond values, in order of appearance
\* A number followed by ms in the output of ping: the character in front of
\* it ("" at the very start of the output) and its value.
Ms(before, value) == [before |-> before, ms |-> value]

\* the characters the regular expression accepts in front of the number,
\* " " standing for white space: line 50
Delimiters == {"<", ">", "=", " "}

\* what a direct ping prints, as the numbers followed by ms in order of
\* appearance
PingOutputs == {<<>>} \cup {<<Ms("=", t)>> : t \in netRtts}

\* the first number followed by ms taken whatever is in front of it
executePingCloseAny(output) ==
    IF output # <<>> THEN [alive |-> TRUE, time |-> Head(output).ms]
    ELSE [alive |-> FALSE, time |-> Null]

\* the value the 'close' handler of executePing resolves with: lines 43-66
executePingClose(output) ==
    LET matches == SelectSeq(output, LAMBDA m : m.before \in Delimiters)
    IN  IF matches # <<>> THEN [alive |-> TRUE, time |-> Head(matches).ms]
        ELSE [alive |-> FALSE, time |-> Null]

\* the value the 'error' handler of executePing resolves with
executePingError == [alive |-> FALSE, time |-> Null]

\* the numbers followed by ms a ping run on its own can print
PingValues == {Ms(before, value) : before \in {"=", " ", "/", ""}, value \in {0, 12}}

RECURSIVE PingOutputsUpTo(_)
PingOutputsUpTo(n) ==
    IF n = 0 THEN {<<>>}
    ELSE LET shorter == PingOutputsUpTo(n - 1)
         IN  shorter \cup {Append(o, m) : o \in shorter, m \in PingValues}

\* 'close' of the process of executePing run on its own: lines 43-66
ExecutePingClose ==
    /\ pingPc = "pending"
    /\ pingResult' = executePingClose(pingOutput)
    /\ pingPc' = "closed"
    /\ UNCHANGED pingOutput
    /\ UNCHANGED <<trVars, mtrVars, netVars, probeVars, runVars>>

\* 'error' of the process of executePing run on its own: lines 39-41
ExecutePingError ==
    /\ pingPc = "pending"
    /\ pingResult' = executePingError
    /\ pingPc' = "failed"
    /\ UNCHANGED pingOutput
    /\ UNCHANGED <<trVars, mtrVars, netVars, probeVars, runVars>>

\* a hop that discovery did not observe is dead too
IsDeadUnobserved(hop) == hop.ip = "" \/ hop.ip = "*" \/ hop.rtt1 = "0 ms"

\* only the placeholder address marks a hop dead
IsDeadStarOnly(hop) == hop.ip = "*"

\* line 91
IsDead(hop) == hop.ip = "" \/ hop.ip = "*"

\* the statistics written into the hop object handed in instead of into a
\* copy of it: the record is marked as being that object
InitStatInPlace(hop) ==
    [hop |-> hop.hop, ip |-> hop.ip, reached |-> hop.reached, rtt1 |-> hop.rtt1,
     sent |-> 0, received |-> 0, rtts |-> <<>>, best |-> Infinity, worst |-> 0,
     sum |-> 0, avg |-> <<0, 1>>, loss |-> <<0, 1>>, stdev |-> <<0, 1>>,
     isDead |-> hop.ip = "" \/ hop.ip = "*", inPlace |-> TRUE]

\* lines 80-92: the spread copies the hop into a new object
InitStat(hop) ==
    [hop |-> hop.hop, ip |-> hop.ip, reached |-> hop.reached, rtt1 |-> hop.rtt1,
     sent |-> 0, received |-> 0, rtts |-> <<>>, best |-> Infinity, worst |-> 0,
     sum |-> 0, avg |-> <<0, 1>>, loss |-> <<0, 1>>, stdev |-> <<0, 1>>,
     isDead |-> IsDead(hop)]

RECURSIVE SumSquareDiffs(_, _)
SumSquareDiffs(rtts, avg) ==
    IF rtts = <<>> THEN 0
    ELSE (Head(rtts) * avg[2] - avg[1]) * (Head(rtts) * avg[2] - avg[1])
         + SumSquareDiffs(Tail(rtts), avg)

RECURSIVE SumSquares(_)
SumSquares(rtts) ==
    IF rtts = <<>> THEN 0 ELSE Head(rtts) * Head(rtts) + SumSquares(Tail(rtts))

\* the root mean square of the samples instead of their deviation from avg
calculateStDevRms(rtts, avg) ==
    IF Len(rtts) < 1 THEN <<0, 1>> ELSE <<SumSquares(rtts), Len(rtts)>>

\* the sample deviation: the squared differences divided by N - 1
calculateStDevSample(rtts, avg) ==
    IF Len(rtts) < 2 THEN <<0, 1>>
    ELSE <<SumSquareDiffs(rtts, avg), avg[2] * avg[2] * (Len(rtts) - 1)>>

\* the square of what calculateStDev returns
calculateStDev(rtts, avg) ==
    IF Len(rtts) < 2 THEN <<0, 1>>
    ELSE <<SumSquareDiffs(rtts, avg), avg[2] * avg[2] * Len(rtts)>>

\* the lost probes over the answered ones instead of over the sent ones
LossOfReceived(sent, received) == <<(sent - received) * 100, received>>

LossOf(sent, received) == <<(sent - received) * 100, sent>>

\* the recalculation without its else branch
RecalculateNoElse(stat) ==
    IF stat.received > 0
    THEN LET avg == <<stat.sum, stat.received>>
         IN  [stat EXCEPT !.avg = avg,
                          !.stdev = calculateStDev(stat.rtts, avg),
                          !.loss = LossOf(stat.sent, stat.received)]
    ELSE stat

\* lines 131-138
Recalculate(stat) ==
    IF stat.received > 0
    THEN LET avg == <<stat.sum, stat.received>>
         IN  [stat EXCEPT !.avg = avg,
                          !.stdev = calculateStDev(stat.rtts, avg),
                          !.loss = LossOf(stat.sent, stat.received)]
    ELSE [stat EXCEPT !.loss = <<100, 1>>]

\* a dead hop whose sent counter is left alone
DeadTaskNoSent(stat) == [stat EXCEPT !.loss = <<100, 1>>]

\* a dead hop whose loss is left as initialised
DeadTaskNoLoss(stat) == [stat EXCEPT !.sent = @ + 1]

DeadTask(stat) == [stat EXCEPT !.sent = @ + 1, !.loss = <<100, 1>>]

\* a live task that counts its probe twice
LiveTaskStartTwice(stat) == [stat EXCEPT !.sent = @ + 2]

\* line 111
LiveTaskStart(stat) == [stat EXCEPT !.sent = @ + 1]

\* a task of the cycle up to its first await: lines 104-114
TaskStart(stat) == IF stat.isDead THEN DeadTask(stat) ELSE LiveTaskStart(stat)

\* best overwritten by the latest sample instead of kept as the minimum
RecordBestIsLatest(stat, res) ==
    IF res.alive
    THEN LET s == [stat EXCEPT !.received = @ + 1]
             time == res.time
         IN  IF time # Null
             THEN [s EXCEPT !.rtts = Append(@, time),
                            !.sum = @ + time,
                            !.best = time,
                            !.worst = IF time > @ THEN time ELSE @]
             ELSE s
    ELSE stat

\* lines 116-126
Record(stat, res) ==
    IF res.alive
    THEN LET s == [stat EXCEPT !.received = @ + 1]
             time == res.time
         IN  IF time # Null
             THEN [s EXCEPT !.rtts = Append(@, time),
                            !.sum = @ + time,
                            !.best = IF time < @ THEN time ELSE @,
                            !.worst = IF time > @ THEN time ELSE @]
             ELSE s
    ELSE stat

\* a task that ends without the recalculation
TaskResumeNoRecalc(stat, res) == Record(stat, res)

\* a task of the cycle after executePing resolved: lines 116-138
TaskResume(stat, res) == Recalculate(Record(stat, res))

\* a task of the cycle after executePing rejected: lines 127-138
TaskCatch(stat) == Recalculate(stat)

\* Number.prototype.toFixed(1) of a quotient, in tenths
ToFixed1(q) == (20 * q[1] + q[2]) \div (2 * q[2])

\* toFixed(1) of the square root of a quotient, in tenths
ToFixed1Sqrt(q) ==
    CHOOSE t \in 0..(10 * (q[1] \div q[2] + 1)) :
        /\ 400 * q[1] < (2 * t + 1) * (2 * t + 1) * q[2]
        /\ t > 0 => (2 * t - 1) * (2 * t - 1) * q[2] <= 400 * q[1]

\* a snapshot row that reports the answered probes as sent
\* the statistics record itself handed out as the row: a reference, named by
\* the hop of the record
SnapshotRowShared(stat) == [shared |-> stat.hop]

SnapshotRowReceived(stat) ==
    [hop |-> stat.hop, ip |-> stat.ip,
     loss |-> ToFixed1(stat.loss),
     avg |-> ToFixed1(stat.avg),
     best |-> IF stat.best = Infinity THEN 0 ELSE 10 * stat.best,
     worst |-> 10 * stat.worst,
     stdev |-> ToFixed1Sqrt(stat.stdev),
     sent |-> stat.received]

\* lines 146-155
SnapshotRow(stat) ==
    [hop |-> stat.hop, ip |-> stat.ip,
     loss |-> ToFixed1(stat.loss),
     avg |-> ToFixed1(stat.avg),
     best |-> IF stat.best = Infinity THEN 0 ELSE 10 * stat.best,
     worst |-> 10 * stat.worst,
     stdev |-> ToFixed1Sqrt(stat.stdev),
     sent |-> stat.sent]

Snapshot(stats, c, total) ==
    [type |-> "cycle_update", cycle |-> c, totalCycles |-> total,
     hops |-> [k \in 1..Len(stats) |-> SnapshotRow(stats[k])]]

\* a final row that formats best without the test for Infinity
FinalRowRawBest(stat) ==
    [host |-> stat.ip, ip |-> stat.ip,
     loss |-> ToFixed1(stat.loss),
     avg |-> ToFixed1(stat.avg),
     best |-> 10 * stat.best,
     worst |-> 10 * stat.worst,
     stdev |-> ToFixed1Sqrt(stat.stdev)]

\* lines 172-180
FinalRow(stat) ==
    [host |-> stat.ip, ip |-> stat.ip,
     loss |-> ToFixed1(stat.loss),
     avg |-> ToFixed1(stat.avg),
     best |-> IF stat.best = Infinity THEN 0 ELSE 10 * stat.best,
     worst |-> 10 * stat.worst,
     stdev |-> ToFixed1Sqrt(stat.stdev)]

\* the final result without the row of the last hop
FinalFormatNoLast(stats) == [k \in 1..(Len(stats) - 1) |-> FinalRow(stats[k])]

FinalFormat(stats) == [k \in 1..Len(stats) |-> FinalRow(stats[k])]

\* a loop that stops one cycle early
LoopStopsEarly(c, total) == c < total

\* line 102
LoopContinues(c, total) == c <= total

\* a delay after the last cycle too
DelayAlways(c, total) == c <= total

\* line 166
DelayNeeded(c, total) == c < total

\* a join that does not wait for the last task
AllButOneSettled(pending) == Cardinality(pending) <= 1

\* a join that never resolves
AllSettledNever(pending) == FALSE

\* line 142: Promise.all of the cycle's tasks
AllSettled(pending) == pending = {}

\* the loop head with cycle = c: either the tasks of cycle c start, or the
\* loop ends and the function returns
EnterCycle(c, stats, total) ==
    /\ cycle' = c
    /\ LET before == IF c = 1 THEN [k \in 1..Len(stats) |-> 0] ELSE pinged IN
       IF LoopContinues(c, total)
       THEN /\ hopStats' = [k \in 1..Len(stats) |-> TaskStart(stats[k])]
            /\ pinging' = {k \in 1..Len(stats) : ~stats[k].isDead}
            /\ pinged' = [k \in 1..Len(stats) |->
                             IF stats[k].isDead THEN before[k] ELSE before[k] + 1]
            /\ mtrPc' = "cycle"
            /\ UNCHANGED mtrResult
       ELSE /\ hopStats' = stats
            /\ pinging' = {}
            /\ pinged' = before
            /\ mtrPc' = "done"
            /\ mtrResult' = FinalFormat(stats)

\* the call: statistics are initialised and the tasks of cycle 1 start before
\* the first await
CallMtrCycles(hopList, total, cb) ==
    /\ mtrHops' = hopList
    /\ cycles' = total
    /\ progressCallback' = cb
    /\ snapshots' = <<>>
    /\ delays' = 0
    /\ EnterCycle(1, [k \in 1..Len(hopList) |-> InitStat(hopList[k])], total)

\* 'close' of the ping process of one hop; its task runs to completion
PingClose ==
    /\ mtrPc = "cycle"
    /\ \E k \in pinging, output \in PingOutputs :
          /\ hopStats' = [hopStats EXCEPT ![k] = TaskResume(@, executePingClose(output))]
          /\ pinging' = pinging \ {k}
    /\ UNCHANGED <<mtrPc, mtrHops, cycles, cycle, snapshots, mtrResult, progressCallback, pinged, delays>>
    /\ UNCHANGED <<trVars, netVars, probeVars, pingVars, runVars>>

\* 'error' of the ping process of one hop; its task runs to completion
PingError ==
    /\ mtrPc = "cycle"
    /\ \E k \in pinging :
          /\ hopStats' = [hopStats EXCEPT ![k] = TaskResume(@, executePingError)]
          /\ pinging' = pinging \ {k}
    /\ UNCHANGED <<mtrPc, mtrHops, cycles, cycle, snapshots, mtrResult, progressCallback, pinged, delays>>
    /\ UNCHANGED <<trVars, netVars, probeVars, pingVars, runVars>>

\* spawn threw inside executePing for one hop: the promise is rejected and the
\* catch of the task counts the packet as lost
PingSpawnFailed ==
    /\ mtrPc = "cycle"
    /\ \E k \in pinging :
          /\ hopStats' = [hopStats EXCEPT ![k] = TaskCatch(@)]
          /\ pinging' = pinging \ {k}
    /\ UNCHANGED <<mtrPc, mtrHops, cycles, cycle, snapshots, mtrResult, progressCallback, pinged, delays>>
    /\ UNCHANGED <<trVars, netVars, probeVars, pingVars, runVars>>

\* the progress callback of the facade: index.js lines 100-105
Progress(snapshot) ==
    IF runPc = "ping"
    THEN events' = Append(events, [step |-> "mtr_ping_progress", domain |-> targetDomains[domIdx],
                                   status |-> snapshot.type, n |-> snapshot.cycle])
    ELSE UNCHANGED events

\* Promise.all of the cycle resolved: lines 142-169
CycleJoin ==
    /\ mtrPc = "cycle"
    /\ AllSettled(pinging)
    /\ IF progressCallback
       THEN /\ snapshots' = Append(snapshots, Snapshot(hopStats, cycle, cycles))
            /\ Progress(Snapshot(hopStats, cycle, cycles))
       ELSE UNCHANGED <<snapshots, events>>
    /\ IF DelayNeeded(cycle, cycles)
       THEN /\ mtrPc' = "delay"
            /\ delays' = delays + 1
            /\ UNCHANGED <<cycle, hopStats, pinging, mtrResult, pinged>>
       ELSE /\ EnterCycle(cycle + 1, hopStats, cycles)
            /\ UNCHANGED delays
    /\ UNCHANGED <<mtrHops, cycles, progressCallback>>
    /\ UNCHANGED <<trVars, netVars, probeVars, pingVars>>
    /\ UNCHANGED <<runPc, targetDomains, mtrDuration, domIdx, targetIP, diagnosis>>

\* the inter-cycle timer fired: lines 167, 102
DelayElapsed ==
    /\ mtrPc = "delay"
    /\ EnterCycle(cycle + 1, hopStats, cycles)
    /\ UNCHANGED <<mtrHops, cycles, snapshots, progressCallback, delays>>
    /\ UNCHANGED <<trVars, netVars, probeVars, pingVars, runVars>>

Hop(ttl, ip) == [hop |-> ttl, ip |-> ip, reached |-> FALSE, rtt1 |-> Undefined]

\* hop lists a caller of the exported runMtrCycles passes
HopListInputs ==
    {<<Hop(1, "a"), Hop(2, "t")>>,
     <<Hop(1, "*"), Hop(2, "t")>>,
     <<Hop(1, ""), Hop(3, "a")>>,
     <<Hop(1, "t")>>}

\* a caller of the exported runMtrCycles
MtrCyclesCalled ==
    /\ mtrPc = "idle"
    /\ runPc = "none"
    /\ \E hopList \in HopListInputs, total \in 1..MaxCycles, cb \in BOOLEAN :
          CallMtrCycles(hopList, total, cb)
    /\ UNCHANGED <<trVars, netVars, probeVars, pingVars, runVars>>

\* ============================================================ NetworkDiagnosisTool.run

NoError == "null"

Event(step, domain, status, n) == [step |-> step, domain |-> domain, status |-> status, n |-> n]

TargetResult(domain, resolved, addresses, dnsError, executed, mtrHopList, mtrError) ==
    [domain |-> domain,
     dns |-> [resolved |-> resolved, addresses |-> addresses, error |-> dnsError],
     mtr |-> [executed |-> executed, hops |-> mtrHopList, error |-> mtrError]]

\* the synthetic hop numbered by the length of the list
AppendTargetByLength(list, target) ==
    IF list = <<>> \/ list[Len(list)].ip # target
    THEN Append(list, [hop |-> Len(list) + 1,
                       ip |-> target, reached |-> FALSE, rtt1 |-> "0 ms"])
    ELSE list

\* the synthetic hop appended whatever the last hop is
AppendTargetAlways(list, target) ==
    Append(list, [hop |-> (IF list = <<>> THEN 0 ELSE list[Len(list)].hop) + 1,
                  ip |-> target, reached |-> FALSE, rtt1 |-> "0 ms"])

\* index.js lines 86-93
AppendTarget(list, target) ==
    IF list = <<>> \/ list[Len(list)].ip # target
    THEN Append(list, [hop |-> (IF list = <<>> THEN 0 ELSE list[Len(list)].hop) + 1,
                       ip |-> target, reached |-> FALSE, rtt1 |-> "0 ms"])
    ELSE list

\* what dns.lookup can answer
DnsAnswers == {<<t>> : t \in TargetIPs}

\* the run ending without its finished event
EnterDomainNoFinish(k, evs, diag) ==
    /\ diagnosis' = diag
    /\ domIdx' = k
    /\ IF k <= Len(targetDomains)
       THEN /\ events' = evs \o <<Event("target_diagnosis", targetDomains[k], "starting", 0),
                                  Event("dns_lookup", targetDomains[k], "resolving", 0)>>
            /\ runPc' = "dns"
       ELSE /\ events' = evs
            /\ runPc' = "finished"

\* the loop left as soon as the entry of a target records a failure
EnterDomainAbortOnFailure(k, evs, diag) ==
    /\ diagnosis' = diag
    /\ domIdx' = k
    /\ IF /\ k <= Len(targetDomains)
          /\ diag # <<>> => (diag[Len(diag)].dns.resolved /\ diag[Len(diag)].mtr.error = NoError)
       THEN /\ events' = evs \o <<Event("target_diagnosis", targetDomains[k], "starting", 0),
                                  Event("dns_lookup", targetDomains[k], "resolving", 0)>>
            /\ runPc' = "dns"
       ELSE /\ events' = Append(evs, Event("finished", "", "", diag))
            /\ runPc' = "finished"

\* the head of the for-of loop at position k, after the events evs and with the
\* report entries diag: the next domain starts, or the run finishes with the
\* event that carries the report
EnterDomain(k, evs, diag) ==
    /\ diagnosis' = diag
    /\ IF k <= Len(targetDomains)
       THEN /\ domIdx' = k
            /\ events' = evs \o <<Event("target_diagnosis", targetDomains[k], "starting", 0),
                                  Event("dns_lookup", targetDomains[k], "resolving", 0)>>
            /\ runPc' = "dns"
       ELSE /\ domIdx' = k
            /\ events' = Append(evs, Event("finished", "", "", diag))
            /\ runPc' = "finished"

\* run(callback) up to its first await: lines 33-43
RunCalled ==
    /\ runPc = "idle"
    /\ events' = events \o <<Event("local_info", "", "starting", 0),
                             Event("public_ip", "", "fetching", 0)>>
    /\ runPc' = "public_ip"
    /\ UNCHANGED <<targetDomains, mtrDuration, domIdx, targetIP, diagnosis>>
    /\ UNCHANGED <<trVars, mtrVars, netVars, probeVars, pingVars>>

\* getPublicIps resolved: lines 44-66
PublicIpsFetched ==
    /\ runPc = "public_ip"
    /\ EnterDomain(1, events \o <<Event("public_ip", "", "completed", 0),
                                  Event("local_info", "", "completed", 0)>>, diagnosis)
    /\ UNCHANGED <<targetDomains, mtrDuration, targetIP>>
    /\ UNCHANGED <<trVars, mtrVars, netVars, probeVars, pingVars>>

\* resolveDNS resolved: lines 68-83
DnsResolved ==
    /\ runPc = "dns"
    /\ \E addresses \in DnsAnswers :
          /\ targetIP' = addresses[1]
          /\ events' = events \o <<Event("dns_lookup", targetDomains[domIdx], "resolved", Len(addresses)),
                                   Event("mtr_trace", targetDomains[domIdx], "running", 0)>>
          /\ CallTraceroute(addresses[1])
    /\ runPc' = "trace"
    /\ UNCHANGED <<targetDomains, mtrDuration, domIdx, diagnosis>>
    /\ UNCHANGED <<mtrVars, netVars, probeVars, pingVars>>

\* the discovery started although resolveDNS rejected
DnsFailedTraces ==
    /\ runPc = "dns"
    /\ targetIP' = ""
    /\ events' = events \o <<Event("dns_lookup", targetDomains[domIdx], "failed", 0),
                             Event("mtr_trace", targetDomains[domIdx], "running", 0)>>
    /\ CallTraceroute("")
    /\ runPc' = "trace"
    /\ UNCHANGED <<targetDomains, mtrDuration, domIdx, diagnosis>>
    /\ UNCHANGED <<mtrVars, netVars, probeVars, pingVars>>

\* resolveDNS rejected: lines 72-75, 115-122
DnsFailed ==
    /\ runPc = "dns"
    /\ targetIP' = ""
    /\ EnterDomain(domIdx + 1,
                   events \o <<Event("dns_lookup", targetDomains[domIdx], "failed", 0),
                               Event("mtr_test", targetDomains[domIdx], "skipped", 0),
                               Event("target_diagnosis", targetDomains[domIdx], "completed", 0)>>,
                   Append(diagnosis, TargetResult(targetDomains[domIdx], FALSE, <<>>, "dns error",
                                                  FALSE, <<>>, "Skipped due to DNS failure")))
    /\ UNCHANGED <<targetDomains, mtrDuration>>
    /\ UNCHANGED <<trVars, mtrVars, netVars, probeVars, pingVars>>

\* runTraceroute resolved: lines 83-106
TraceReturned ==
    /\ runPc = "trace"
    /\ trPc = "done"
    /\ LET list == AppendTarget(finalHops, targetIP)
       IN  /\ events' = events \o <<Event("mtr_trace", targetDomains[domIdx], "completed", Len(list)),
                                    Event("mtr_ping", targetDomains[domIdx], "running", Len(list))>>
           /\ CallMtrCycles(list, mtrDuration, TRUE)
    /\ runPc' = "ping"
    /\ UNCHANGED <<targetDomains, mtrDuration, domIdx, targetIP, diagnosis>>
    /\ UNCHANGED <<trVars, netVars, probeVars, pingVars>>

\* the report entry of a target whose test failed, with the error left unset
FailedResultNoError(domain, ip, message) ==
    TargetResult(domain, TRUE, <<ip>>, NoError, FALSE, <<>>, NoError)

\* the report entry of a target whose test failed: lines 57-61, 71, 111-113
FailedResult(domain, ip, message) ==
    TargetResult(domain, TRUE, <<ip>>, NoError, FALSE, <<>>, message)

\* runTraceroute rejected: the catch of lines 111-114, then lines 120-124
TraceFailed ==
    /\ runPc = "trace"
    /\ trPc = "rejected"
    /\ EnterDomain(domIdx + 1,
                   events \o <<Event("mtr_test", targetDomains[domIdx], "failed", 0),
                               Event("target_diagnosis", targetDomains[domIdx], "completed", 0)>>,
                   Append(diagnosis, FailedResult(targetDomains[domIdx], targetIP, SpawnFailure)))
    /\ UNCHANGED <<targetDomains, mtrDuration, targetIP>>
    /\ UNCHANGED <<trVars, mtrVars, netVars, probeVars, pingVars>>

\* runMtrCycles resolved: lines 108-110, 120-124
MtrReturned ==
    /\ runPc = "ping"
    /\ mtrPc = "done"
    /\ EnterDomain(domIdx + 1,
                   events \o <<Event("mtr_ping", targetDomains[domIdx], "completed", Len(mtrResult)),
                               Event("target_diagnosis", targetDomains[domIdx], "completed", 0)>>,
                   Append(diagnosis, TargetResult(targetDomains[domIdx], TRUE, <<targetIP>>, NoError,
                                                  TRUE, mtrResult, NoError)))
    /\ UNCHANGED <<targetDomains, mtrDuration, targetIP>>
    /\ UNCHANGED <<trVars, mtrVars, netVars, probeVars, pingVars>>

\* the targetDomains a tool is constructed with
DomainLists == {<<"d1">>}

\* a caller of the exported runTraceroute
TracerouteCalled ==
    /\ trPc = "idle"
    /\ runPc = "none"
    /\ \E target \in TargetIPs : CallTraceroute(target)
    /\ UNCHANGED <<mtrVars, netVars, probeVars, pingVars, runVars>>

\* nothing has been called yet
Idle ==
    /\ trPc = "idle" /\ trTarget = "" /\ i = 1 /\ hops = <<>> /\ targetReached = FALSE
    /\ replies = NoReplies /\ timedOut = 0 /\ finalHops = <<>>
    /\ spawned = <<>> /\ closeOrder = <<>> /\ crashed = FALSE
    /\ mtrPc = "idle" /\ mtrHops = <<>> /\ cycles = 0 /\ cycle = 0 /\ hopStats = <<>>
    /\ pinging = {} /\ snapshots = <<>> /\ mtrResult = <<>> /\ progressCallback = FALSE
    /\ pinged = <<>> /\ delays = 0
    /\ domIdx = 0 /\ targetIP = "" /\ diagnosis = <<>> /\ events = <<>>

\* probeHop is not run on its own
NoProbe ==
    /\ probePc = "none" /\ probeTtl = 0 /\ probeTarget = "" /\ probeOutput = <<>>
    /\ probeResult = probeHopError(0)

\* executePing is not run on its own
NoPing == pingPc = "none" /\ pingOutput = <<>> /\ pingResult = executePingError

\* executePing(ip) called on its own, the process spawned and its output fixed
InitPing ==
    /\ Idle /\ NoProbe /\ runPc = "none" /\ netRtts = RTTs /\ netReplies = MaxReplies /\ targetDomains = <<>> /\ mtrDuration = 0
    /\ pingPc = "pending"
    /\ pingOutput \in PingOutputsUpTo(MaxValues)
    /\ pingResult = executePingError

NextPing == ExecutePingClose \/ ExecutePingError

SpecPing == InitPing /\ [][NextPing]_vars

\* runTraceroute called on its own
InitTrace == Idle /\ NoPing /\ NoProbe /\ runPc = "none" /\ netRtts = RTTs /\ netReplies = MaxReplies /\ targetDomains = <<>> /\ mtrDuration = 0

\* probeHop(ttl) called on its own, the process spawned and its output fixed
InitProbe ==
    /\ Idle /\ NoPing /\ runPc = "none" /\ netRtts = RTTs /\ netReplies = MaxReplies /\ targetDomains = <<>> /\ mtrDuration = 0
    /\ probePc = "pending"
    /\ probeTtl \in {1, MAX_HOPS}
    /\ probeTarget \in TargetIPs
    /\ probeOutput \in OutputsUpTo(MaxLines)
    /\ probeResult = probeHopError(0)

NextProbe == ProbeHopClose \/ ProbeHopError

SpecProbe == InitProbe /\ [][NextProbe]_vars

\* runMtrCycles called on its own
InitMtr == Idle /\ NoPing /\ NoProbe /\ runPc = "none" /\ netRtts = RTTs /\ netReplies = MaxReplies /\ targetDomains = <<>> /\ mtrDuration = 0

NextMtr == MtrCyclesCalled \/ PingClose \/ PingError \/ PingSpawnFailed \/ CycleJoin \/ DelayElapsed

SpecMtr == InitMtr /\ [][NextMtr]_vars

NextTrace == TracerouteCalled \/ ProbeClose \/ ProbeError \/ BatchJoin

SpecTrace == InitTrace /\ [][NextTrace]_vars

\* new NetworkDiagnosisTool(targetDomains, mtrDuration): lines 14-26
Init ==
    /\ Idle
    /\ NoProbe
    /\ NoPing
    /\ runPc = "idle"
    /\ netRtts = FacadeRTTs
    /\ netReplies = MaxReplies
    /\ targetDomains \in DomainLists
    /\ mtrDuration \in 1..MaxDuration

Next ==
    \/ RunCalled \/ PublicIpsFetched \/ DnsResolved \/ DnsFailed
    \/ ProbeClose \/ ProbeError \/ BatchJoin \/ TraceReturned \/ TraceFailed
    \/ PingClose \/ PingError \/ PingSpawnFailed \/ CycleJoin \/ DelayElapsed \/ MtrReturned

Spec == Init /\ [][Next]_vars

\* the message of the error a callback throws
CallbackFailure == "callback threw"

\* the progress callback threw while handling the snapshot of the cycle: the
\* call of line 157 is inside the async function, whose promise is rejected
ProgressThrows ==
    /\ mtrPc = "cycle"
    /\ AllSettled(pinging)
    /\ progressCallback
    /\ snapshots' = Append(snapshots, Snapshot(hopStats, cycle, cycles))
    /\ Progress(Snapshot(hopStats, cycle, cycles))
    /\ mtrPc' = "rejected"
    /\ UNCHANGED <<mtrHops, cycles, cycle, hopStats, pinging, mtrResult, progressCallback, pinged, delays>>
    /\ UNCHANGED <<trVars, netVars, probeVars, pingVars>>
    /\ UNCHANGED <<runPc, targetDomains, mtrDuration, domIdx, targetIP, diagnosis>>

\* a rejected runMtrCycles recorded as an executed test
MtrFailedAsExecuted ==
    /\ runPc = "ping"
    /\ mtrPc = "rejected"
    /\ EnterDomain(domIdx + 1,
                   events \o <<Event("mtr_test", targetDomains[domIdx], "failed", 0),
                               Event("target_diagnosis", targetDomains[domIdx], "completed", 0)>>,
                   Append(diagnosis, TargetResult(targetDomains[domIdx], TRUE, <<targetIP>>, NoError,
                                                  TRUE, FinalFormat(hopStats), CallbackFailure)))
    /\ UNCHANGED <<targetDomains, mtrDuration, targetIP>>
    /\ UNCHANGED <<trVars, mtrVars, netVars, probeVars, pingVars>>

\* runMtrCycles rejected: the catch of index.js lines 111-114, then lines 120-124
MtrFailed ==
    /\ runPc = "ping"
    /\ mtrPc = "rejected"
    /\ EnterDomain(domIdx + 1,
                   events \o <<Event("mtr_test", targetDomains[domIdx], "failed", 0),
                               Event("target_diagnosis", targetDomains[domIdx], "completed", 0)>>,
                   Append(diagnosis, FailedResult(targetDomains[domIdx], targetIP, CallbackFailure)))
    /\ UNCHANGED <<targetDomains, mtrDuration, targetIP>>
    /\ UNCHANGED <<trVars, mtrVars, netVars, probeVars, pingVars>>

\* runMtrCycles resolved and the callback threw on 'mtr_ping completed':
\* index.js lines 108-110 ran inside the try, then the catch of lines 111-114
\* and lines 120-124
MtrReturnedCallbackThrows ==
    /\ runPc = "ping"
    /\ mtrPc = "done"
    /\ EnterDomain(domIdx + 1,
                   events \o <<Event("mtr_ping", targetDomains[domIdx], "completed", Len(mtrResult)),
                               Event("mtr_test", targetDomains[domIdx], "failed", 0),
                               Event("target_diagnosis", targetDomains[domIdx], "completed", 0)>>,
                   Append(diagnosis, TargetResult(targetDomains[domIdx], TRUE, <<targetIP>>, NoError,
                                                  TRUE, mtrResult, CallbackFailure)))
    /\ UNCHANGED <<targetDomains, mtrDuration, targetIP>>
    /\ UNCHANGED <<trVars, mtrVars, netVars, probeVars, pingVars>>

\* run() with a callback that can throw on a progress event and on
\* 'mtr_ping completed'
NextThrows == Next \/ ProgressThrows \/ MtrFailed \/ MtrReturnedCallbackThrows

SpecThrows == Init /\ [][NextThrows]_vars

\* the run() calls started so far
RunsStarted ==
    Cardinality({k \in 1..Len(events) :
                    events[k].step = "local_info" /\ events[k].status = "starting"})

\* run(callback) called again on the same tool after the previous call
\* resolved: lines 33-43; this.results is the object the constructor made
RunCalledAgain ==
    /\ runPc = "finished"
    /\ RunsStarted < MaxRuns
    /\ events' = events \o <<Event("local_info", "", "starting", 0),
                             Event("public_ip", "", "fetching", 0)>>
    /\ runPc' = "public_ip"
    /\ UNCHANGED <<targetDomains, mtrDuration, domIdx, targetIP, diagnosis>>
    /\ UNCHANGED <<trVars, mtrVars, netVars, probeVars, pingVars>>

\* a tool for one domain and one or two cycles, on which run() is called
\* repeatedly
InitRuns ==
    /\ Idle
    /\ NoProbe
    /\ NoPing
    /\ runPc = "idle"
    /\ netRtts = FacadeRTTs
    /\ netReplies = SequenceReplies
    /\ targetDomains \in DomainLists
    /\ mtrDuration \in {1, 2}

NextRuns == Next \/ RunCalledAgain

SpecRuns == InitRuns /\ [][NextRuns]_vars

\* the targetDomains of a tool for several targets
SeveralDomains == {<<"d1", "d2">>}

\* a tool for two domains and one or two cycles, run with a callback that can throw
\* on a progress event and on 'mtr_ping completed'
InitTargets ==
    /\ Idle
    /\ NoProbe
    /\ NoPing
    /\ runPc = "idle"
    /\ netRtts = FacadeRTTs
    /\ netReplies = SequenceReplies
    /\ targetDomains \in SeveralDomains
    /\ mtrDuration \in {1, 2}

SpecTargets == InitTargets /\ [][NextThrows]_vars

\* a tool for one domain and up to MaxDuration cycles, or for two domains and
\* one or two cycles
InitFair == Init \/ InitTargets

\* run() with a callback that does not throw, in an environment where every
\* spawned process closes or errors (part_003 lines 48, 94; part_004 lines
\* 39, 43), every timer fires (part_004 line 167) and the public-address
\* and DNS lookups settle (index.js lines 43, 67): a step that has become
\* possible is eventually taken
FairSpec == InitFair /\ [][Next]_vars /\ WF_vars(Next)

\* ============================================================ properties

Occurrences(list, ip) == Cardinality({k \in 1..Len(list) : list[k].ip = ip})

Live(ip) == ip # "" /\ ip # "*"

RECURSIVE Sum(_)
Sum(seq) == IF seq = <<>> THEN 0 ELSE Head(seq) + Sum(Tail(seq))

Abs(x) == IF x < 0 THEN 0 - x ELSE x

\* C1: when runTraceroute returned and a retained probe observed the
\* destination, the returned list holds the destination address exactly once,
\* as its last element.
C1_DestinationOnceAndLast ==
    (trPc = "done" /\ \E k \in 1..Len(hops) : hops[k].reached \/ hops[k].ip = trTarget)
    => /\ Occurrences(finalHops, trTarget) = 1
       /\ finalHops[Len(finalHops)].ip = trTarget

\* C1 witness: discovery returned after a probe observed the destination and
\* a probe of a larger TTL was retained too, so the truncation dropped a hop.
C1_Witness ==
    /\ trPc = "done"
    /\ \E j, k \in 1..Len(hops) : j < k /\ hops[j].ip = trTarget
    /\ Len(finalHops) < Len(hops)

\* C2: with a progress callback, the k-th invocation carries cycle index k,
\* there are never more than `cycles` invocations, and when runMtrCycles has
\* returned there were exactly `cycles` of them.
C2_ExactlyCSnapshots ==
    (mtrPc # "idle" /\ progressCallback)
    => /\ \A k \in 1..Len(snapshots) : snapshots[k].cycle = k
       /\ Len(snapshots) <= cycles
       /\ mtrPc = "done" => Len(snapshots) = cycles

\* C2 witness: a run of at least two cycles returned after its snapshots.
C2_Witness ==
    mtrPc = "done" /\ progressCallback /\ cycles >= 2 /\ Len(snapshots) = cycles

\* C3: a snapshot is emitted only when no probe is in flight; the tasks of
\* the next cycle start only when no probe is in flight and the callback for
\* the current cycle has been invoked; a probe in flight belongs to the
\* current cycle.
C3_CyclesSequential ==
    [][/\ snapshots' # snapshots => pinging = {}
       /\ (mtrPc' = "cycle" /\ cycle' = cycle + 1 /\ mtrPc # "idle")
            => /\ pinging = {}
               /\ progressCallback => /\ Len(snapshots') = cycle
                                      /\ snapshots'[cycle].cycle = cycle
       /\ \A k \in pinging' : hopStats'[k].sent = cycle']_vars

\* C3 witness: probes of the second cycle are in flight after the first
\* snapshot was delivered.
C3_Witness ==
    mtrPc = "cycle" /\ cycle = 2 /\ pinging # {} /\ progressCallback /\ Len(snapshots) = 1

\* C4: in the snapshot of cycle N every hop with an address has sent = N.
C4_SnapshotSentIsCycle ==
    \A k \in 1..Len(snapshots) : \A h \in 1..Len(snapshots[k].hops) :
        Live(snapshots[k].hops[h].ip) => snapshots[k].hops[h].sent = snapshots[k].cycle

\* C4 witness: the second snapshot has a live hop that lost a probe.
C4_Witness ==
    /\ Len(snapshots) = 2
    /\ \E h \in 1..Len(hopStats) :
          Live(hopStats[h].ip) /\ hopStats[h].received < 2 /\ snapshots[2].hops[h].sent = 2

\* C5 as claimed: in every reachable state, every live hop with sent > 0 has
\* 0 <= loss <= 100 and loss = 100 * (sent - received) / sent.
C5_LossAtAnyPoint ==
    \A h \in 1..Len(hopStats) :
        (Live(hopStats[h].ip) /\ hopStats[h].sent > 0)
        => /\ 0 <= hopStats[h].loss[1] /\ hopStats[h].loss[1] <= 100 * hopStats[h].loss[2]
           /\ hopStats[h].loss[1] * hopStats[h].sent
                = 100 * (hopStats[h].sent - hopStats[h].received) * hopStats[h].loss[2]

\* C5 as amended: for every live hop with sent > 0 whose probe is not in
\* flight, 0 <= loss <= 100 and loss = 100 * (sent - received) / sent; the
\* row of the latest snapshot and of the final result reports that value
\* rounded to one decimal.
C5_LossAtJoin ==
    \A h \in 1..Len(hopStats) :
        (Live(hopStats[h].ip) /\ hopStats[h].sent > 0 /\ h \notin pinging)
        => /\ 0 <= hopStats[h].loss[1] /\ hopStats[h].loss[1] <= 100 * hopStats[h].loss[2]
           /\ hopStats[h].loss[1] * hopStats[h].sent
                = 100 * (hopStats[h].sent - hopStats[h].received) * hopStats[h].loss[2]
           /\ (mtrPc \in {"delay", "done"} /\ progressCallback)
                => LET row == snapshots[Len(snapshots)].hops[h]
                   IN  /\ 0 <= row.loss /\ row.loss <= 1000
                       /\ 2 * Abs(row.loss * hopStats[h].sent
                                  - 1000 * (hopStats[h].sent - hopStats[h].received))
                            <= hopStats[h].sent
           /\ mtrPc = "done"
                => 2 * Abs(mtrResult[h].loss * hopStats[h].sent
                           - 1000 * (hopStats[h].sent - hopStats[h].received))
                     <= hopStats[h].sent

\* C5 witness: a live hop answered one of two probes and none is in flight.
C5_Witness ==
    \E h \in 1..Len(hopStats) :
        /\ Live(hopStats[h].ip) /\ h \notin pinging /\ mtrPc = "done" /\ progressCallback
        /\ hopStats[h].sent = 2 /\ hopStats[h].received = 1
        /\ mtrResult[h].loss = 500

C7_FewSamples ==
    \A h \in 1..Len(hopStats) :
        /\ hopStats[h].received = 1 => hopStats[h].stdev[1] = 0
        /\ hopStats[h].received = 0 => hopStats[h].stdev[1] = 0 /\ hopStats[h].avg[1] = 0
        /\ (mtrPc = "done" /\ hopStats[h].received <= 1) => mtrResult[h].stdev = 0
        /\ (mtrPc = "done" /\ hopStats[h].received = 0) => mtrResult[h].avg = 0

\* C7 witness: after two cycles one hop has one sample and another has none.
C7_Witness ==
    /\ mtrPc = "done"
    /\ \E g, h \in 1..Len(hopStats) :
          /\ hopStats[g].sent = 2 /\ hopStats[g].received = 1 /\ hopStats[g].rtts # <<>>
          /\ hopStats[h].sent = 2 /\ hopStats[h].received = 0 /\ ~hopStats[h].isDead

\* C8 as claimed: the reported avg equals sum / received and the reported
\* stdev is the population standard deviation of the samples.
C8_ReportedExact ==
    mtrPc = "done" =>
        \A h \in 1..Len(hopStats) :
            hopStats[h].received > 0
            => LET st == hopStats[h]
                   n == Len(st.rtts)
               IN  /\ mtrResult[h].avg * st.received = 10 * st.sum
                   /\ mtrResult[h].stdev * mtrResult[h].stdev * n * n
                        = 100 * (n * SumSquares(st.rtts) - st.sum * st.sum)

\* C8 as amended: for a hop with samples and no probe in flight, avg = sum /
\* received with sum the total of the samples, and the variance is the
\* population variance (N * sum of squares - square of sum) / N^2; the final
\* result reports both rounded to one decimal; two hops with samples [10,12]
\* and [10,14] are reported with avg 11 and 12, stdev 1 and 2, loss 0.
C8_AvgAndPopulationStdev ==
    /\ \A h \in 1..Len(hopStats) :
          (hopStats[h].received > 0 /\ h \notin pinging)
          => LET st == hopStats[h]
                 n == Len(st.rtts)
                 v == n * SumSquares(st.rtts) - st.sum * st.sum
             IN  /\ n = st.received
                 /\ st.sum = Sum(st.rtts)
                 /\ st.avg[1] * st.received = st.sum * st.avg[2]
                 /\ st.stdev[1] * n * n = st.stdev[2] * v
                 /\ mtrPc = "done" =>
                      LET t == mtrResult[h].stdev
                      IN  /\ 2 * Abs(mtrResult[h].avg * st.received - 10 * st.sum) <= st.received
                          /\ 400 * v < (2 * t + 1) * (2 * t + 1) * n * n
                          /\ t > 0 => (2 * t - 1) * (2 * t - 1) * n * n <= 400 * v
    /\ (/\ mtrPc = "done" /\ Len(hopStats) = 2
        /\ hopStats[1].rtts = <<10, 12>> /\ hopStats[1].sent = 2
        /\ hopStats[2].rtts = <<10, 14>> /\ hopStats[2].sent = 2)
       => /\ mtrResult[1].avg = 110 /\ mtrResult[1].stdev = 10 /\ mtrResult[1].loss = 0
          /\ mtrResult[2].avg = 120 /\ mtrResult[2].stdev = 20 /\ mtrResult[2].loss = 0

\* C8 witness: two hops sampled [10,12] and [10,14] over two cycles.
C8_Witness ==
    /\ mtrPc = "done" /\ Len(hopStats) = 2
    /\ hopStats[1].rtts = <<10, 12>> /\ hopStats[2].rtts = <<10, 14>>

\* C9: the list handed to aggregation is the discovered list followed by a
\* synthetic hop {index = last index + 1, or 1; address = target} when the
\* discovered list is empty or its last address is not the target, and is the
\* discovered list itself otherwise; after 30 unanswered TTLs it ends with
\* the synthetic hop.
C9_SyntheticHop ==
    (runPc \in {"ping", "finished"} /\ mtrPc # "idle")
    => LET n == Len(finalHops)
           needed == n = 0 \/ finalHops[n].ip # targetIP
       IN  /\ needed => /\ Len(mtrHops) = n + 1
                        /\ SubSeq(mtrHops, 1, n) = finalHops
                        /\ mtrHops[n + 1].ip = targetIP
                        /\ mtrHops[n + 1].rtt1 = "0 ms"
                        /\ mtrHops[n + 1].hop = IF n = 0 THEN 1 ELSE finalHops[n].hop + 1
           /\ ~needed => mtrHops = finalHops
           /\ (i + BATCH_SIZE > MAX_HOPS /\ ~targetReached)
                => mtrHops[Len(mtrHops)].rtt1 = "0 ms" /\ mtrHops[Len(mtrHops)].ip = targetIP

\* C9 witness: all 30 TTLs were probed, a router answered at a TTL beyond the
\* first batch, the destination never did, and aggregation got the list.
C9_Witness ==
    /\ runPc = "ping" /\ i + BATCH_SIZE > MAX_HOPS /\ ~targetReached
    /\ Len(finalHops) = 1 /\ finalHops[1].hop > BATCH_SIZE
    /\ Len(mtrHops) = 2

\* C10: when aggregation has completed for a target, the final list has the
\* length and the addresses of the list given to aggregation, in order, its
\* last address is the target, and the target occurs in it once.
C10_ResultMatchesHopList ==
    (runPc \in {"ping", "finished"} /\ mtrPc = "done")
    => /\ Len(mtrResult) = Len(mtrHops)
       /\ \A k \in 1..Len(mtrResult) : mtrResult[k].ip = mtrHops[k].ip
       /\ mtrResult[Len(mtrResult)].ip = targetIP
       /\ Occurrences(mtrResult, targetIP) = 1
       /\ runPc = "finished" => diagnosis[Len(diagnosis)].mtr.hops = mtrResult

\* C10 witness: a run finished whose discovery observed the destination after
\* a router, so that nothing was appended.
C10_Witness ==
    /\ runPc = "finished" /\ mtrPc = "done"
    /\ diagnosis[Len(diagnosis)].mtr.executed
    /\ Len(mtrResult) = 2 /\ targetReached

\* the lines of the output that show the target with a time marker before any
\* line shows another address
DestinationLines(output, target) ==
    {k \in 1..Len(output) :
        /\ output[k].ip = target /\ output[k].time # Null
        /\ \A j \in 1..(k - 1) : output[j].ip \in {"", target}}

\* C11 as stated: the close handler of probeHop, given an output with a line
\* that shows the destination address and a time marker such as time=23ms
\* and no earlier line with a non-destination address, resolves with a
\* destination reply that carries the 23 of the time marker as its RTT.
C11_DestinationReplyWithRtt ==
    (probePc = "closed" /\ DestinationLines(probeOutput, probeTarget) # {}) =>
        /\ probeResult.ip = probeTarget /\ probeResult.reached
        /\ \E k \in DestinationLines(probeOutput, probeTarget),
              f \in DOMAIN probeResult \ {"hop", "ip", "reached", "rtt1"} :
              probeResult[f] = probeOutput[k].time

\* C11 amended: for such an output the close handler resolves with the
\* destination reply {hop: ttl, ip: targetIP, reached: true}, which carries
\* no round-trip time.
C11_DestinationReplyNoRtt ==
    (probePc = "closed" /\ DestinationLines(probeOutput, probeTarget) # {}) =>
        probeResult = [hop |-> probeTtl, ip |-> probeTarget, reached |-> TRUE, rtt1 |-> Undefined]

C11_Witness ==
    /\ probePc = "closed" /\ Len(probeOutput) = 2
    /\ probeOutput[1] = Line(probeTarget, Null, FALSE)
    /\ probeOutput[2] = Line(probeTarget, 23, FALSE)
    /\ probeResult.reached

\* C12: the close handler of probeHop, given an output whose only address is
\* a non-destination address and no line of which has a time marker,
\* resolves with a hop reply for that address: ip is the address, reached is
\* false, and the value carries no round-trip time.
C12_HopReply ==
    \A a \in HopIPs :
        (/\ probePc = "closed" /\ a # probeTarget
         /\ \E k \in 1..Len(probeOutput) : probeOutput[k].ip = a
         /\ \A k \in 1..Len(probeOutput) :
               probeOutput[k].ip \in {"", a} /\ probeOutput[k].time = Null)
        => probeResult = [hop |-> probeTtl, ip |-> a, reached |-> FALSE, rtt1 |-> Undefined]

C12_Witness ==
    /\ probePc = "closed" /\ Len(probeOutput) = 2
    /\ probeOutput[1] = Line("", Null, FALSE)
    /\ probeOutput[2] = Line("a", Null, FALSE)
    /\ probeResult.ip = "a" /\ ~probeResult.reached

\* C13 as stated: a probe whose process cannot be started or crashes is
\* always turned into a timeout-equivalent result and never makes
\* runTraceroute or runMtrCycles reject, so that no report entry carries the
\* error of a failed spawn.
C13_ProbeFailureNeverRejects ==
    /\ trPc # "rejected"
    /\ mtrPc \in {"idle", "cycle", "delay", "done"}
    /\ \A k \in 1..Len(diagnosis) : diagnosis[k].mtr.error # SpawnFailure

\* C13 amended: a probe whose process emits 'error' resolves as a timeout:
\* the sweep keeps waiting for its batch, the join retains exactly the
\* replies, and a direct probe that ends without a sample is a lost packet
\* of its hop; runMtrCycles never rejects, and runTraceroute is rejected
\* only in a step that creates a batch, when spawn itself throws, never by
\* a process that was started.
C13_CrashIsTimeout ==
    [][/\ crashed' => (trPc' = "batch" /\ timedOut' >= 1)
       /\ (trPc = "batch" /\ hops' # hops) =>
              Len(hops') = Len(hops) + Cardinality(DOMAIN replies)
       /\ (trPc' = "rejected" /\ trPc # "rejected") => (InFlight = 0 /\ spawned' = spawned)
       /\ mtrPc' \in {"idle", "cycle", "delay", "done"}
       /\ \A k \in pinging \ pinging' :
              /\ mtrPc' = mtrPc
              /\ hopStats'[k].received = hopStats[k].received =>
                    hopStats'[k].loss[1] * hopStats[k].sent =
                        (hopStats[k].sent - hopStats[k].received) * 100 * hopStats'[k].loss[2]
      ]_vars

C13_Witness == trPc = "batch" /\ crashed /\ timedOut = BATCH_SIZE /\ replies = NoReplies

EventsOf(domain, step) ==
    {k \in 1..Len(events) : events[k].step = step /\ events[k].domain = domain}

C15_UnreachableIsReported ==
    /\ mtrPc \in {"idle", "cycle", "delay", "done"}
    /\ mtrPc \in {"cycle", "delay"} => ENABLED NextMtr
    /\ mtrPc = "done" =>
          /\ Len(mtrResult) = Len(mtrHops)
          /\ \A h \in 1..Len(mtrHops) :
                /\ mtrResult[h].ip = mtrHops[h].ip
                /\ hopStats[h].received = 0 => mtrResult[h].loss = 1000

C15_Witness ==
    /\ mtrPc = "done" /\ cycles >= 2 /\ Len(mtrHops) = 2
    /\ \A h \in 1..Len(mtrHops) :
          Live(mtrHops[h].ip) /\ hopStats[h].sent = cycles /\ hopStats[h].received = 0
    /\ \A h \in 1..Len(mtrResult) : mtrResult[h].loss = 1000

\* C16: run(callback) resolves with the report; until then no finished event
\* was emitted, and when it resolves exactly one was, as the last event of
\* the run, carrying the report the promise resolves with, which has one
\* entry per target domain.
C16_FinishedOnceAndLast ==
    LET fin == {k \in 1..Len(events) : events[k].step = "finished"}
    IN  /\ runPc # "finished" => fin = {}
        /\ runPc = "finished" =>
              /\ fin = {Len(events)}
              /\ events[Len(events)].n = diagnosis
              /\ Len(diagnosis) = Len(targetDomains)

C16_Witness ==
    /\ runPc = "finished" /\ Len(events) > 10
    /\ events[Len(events)].step = "finished"
    /\ events[Len(events) - 1] = Event("target_diagnosis", "d1", "completed", 0)
    /\ diagnosis[1].mtr.executed

Elements(seq) == {seq[k] : k \in 1..Len(seq)}

\* the batches (1, 2, 3) with a retained reply of the target
DestinationBatches ==
    {b \in 1..(MAX_HOPS \div BATCH_SIZE) :
        \E k \in 1..Len(hops) :
            /\ hops[k].ip = trTarget
            /\ hops[k].hop \in ((b - 1) * BATCH_SIZE + 1)..(b * BATCH_SIZE)}

\* C17: the TTLs are probed in ascending batches of ten; a batch is created
\* only when no probe of the batch before it is pending and no reply of the
\* target was retained; so a completed discovery probed exactly 1..10k, k
\* being the first batch that observed the target, or 1..30 if none did.
C17_BatchedSweep ==
    /\ [](/\ trPc \in {"batch", "done"} =>
                \E k \in 1..(MAX_HOPS \div BATCH_SIZE) : spawned = Ttls(1, k * BATCH_SIZE)
          /\ trPc = "done" =>
                Elements(spawned) =
                    IF DestinationBatches = {} THEN 1..MAX_HOPS
                    ELSE 1..(BATCH_SIZE * (CHOOSE b \in DestinationBatches :
                                              \A c \in DestinationBatches : b <= c)))
    /\ [][spawned' # spawned =>
              /\ InFlight = 0
              /\ ~targetReached' /\ DestinationBatches' = {}
              /\ spawned' = spawned \o Ttls(Len(spawned) + 1, Len(spawned) + BATCH_SIZE)]_vars

C17_Witness ==
    /\ trPc = "done" /\ targetReached /\ Len(spawned) = 2 * BATCH_SIZE
    /\ Len(hops) = 2 /\ hops[1].hop = 1 /\ hops[2].hop = 11 /\ hops[2].ip = trTarget

\* C18: at every moment of a discovery at most ten probe processes are
\* pending, and no TTL of 1..30 has a process spawned for it twice.
C18_AtMostTenInFlight ==
    /\ InFlight \in 0..BATCH_SIZE
    /\ Elements(spawned) \subseteq 1..MAX_HOPS
    /\ \A j, k \in 1..Len(spawned) : spawned[j] = spawned[k] => j = k

C18_Witness ==
    /\ trPc = "batch" /\ i = BATCH_SIZE + 1 /\ InFlight = BATCH_SIZE
    /\ Len(spawned) = 2 * BATCH_SIZE

\* C19: whatever the order in which the probes of a batch resolved, the list
\* runTraceroute returns is strictly ascending in hop, and it is determined
\* by the set of retained per-TTL results alone: it holds exactly the results
\* that no reply of the target precedes.
C19_AscendingWhateverOrder ==
    trPc = "done" =>
        /\ \A j, k \in 1..Len(finalHops) : j < k => finalHops[j].hop < finalHops[k].hop
        /\ Elements(finalHops) =
              {h \in Elements(hops) :
                  ~\E g \in Elements(hops) : g.ip = trTarget /\ g.hop < h.hop}

C19_Witness ==
    /\ trPc = "done" /\ closeOrder = <<2, 1>>
    /\ Len(finalHops) = 2 /\ finalHops[1].hop = 1 /\ finalHops[2].hop = 2

\* the TTLs whose probe was classified as a reply of the target
DestinationTtls == {hops[k].hop : k \in {j \in 1..Len(hops) : hops[j].ip = trTarget}}

\* C20: when probes of several TTLs got a reply of the target, the returned
\* list ends with the hop of the smallest such TTL and holds no hop of a
\* larger index, retained in the same batch or not.
C20_TruncatedAtFirstDestination ==
    (trPc = "done" /\ DestinationTtls # {}) =>
        LET first == CHOOSE t \in DestinationTtls : \A u \in DestinationTtls : t <= u
        IN  /\ finalHops # <<>>
            /\ finalHops[Len(finalHops)].hop = first
            /\ finalHops[Len(finalHops)].ip = trTarget
            /\ \A k \in 1..Len(finalHops) : finalHops[k].hop <= first

C20_Witness ==
    /\ trPc = "done" /\ DestinationTtls = {1, 2}
    /\ Len(finalHops) = 1 /\ finalHops[1].hop = 1

\* C21: a TTL whose probe resolved as a timeout has no entry: every hop of
\* the list runTraceroute returns has an address, never '*' and never the
\* empty string, and its index is the TTL of a probe that was spawned; the
\* indices may have gaps.
C21_NoPlaceholderHops ==
    trPc = "done" =>
        \A k \in 1..Len(finalHops) :
            /\ finalHops[k].ip \notin {"*", ""}
            /\ finalHops[k].ip \in TargetIPs \cup HopIPs
            /\ finalHops[k].hop \in Elements(spawned)

C21_Witness ==
    /\ trPc = "done" /\ Len(finalHops) = 2
    /\ finalHops[1].hop = 2 /\ finalHops[2].hop = 11

\* the derived fields of a record agree with its counters
Recomputed(stat) ==
    /\ stat.sent > 0 => stat.loss[1] * stat.sent = (stat.sent - stat.received) * 100 * stat.loss[2]
    /\ stat.received > 0 =>
          /\ stat.avg[1] * stat.received = stat.sum * stat.avg[2]
          /\ stat.stdev = calculateStDev(stat.rtts, stat.avg)

\* C22: while tasks of a cycle are pending, a step writes the record of one
\* hop only, the hop whose task it resumes, and builds no snapshot and no
\* result; a snapshot or the final result is built only when no task is
\* pending, from records whose loss, avg and stdev agree with their sent
\* and received counters.
C22_OneWriterReadAfterJoin ==
    [][/\ (mtrPc = "cycle" /\ pinging # {}) =>
              /\ snapshots' = snapshots /\ mtrResult' = mtrResult
              /\ \A k \in 1..Len(hopStats) :
                    hopStats'[k] # hopStats[k] => (k \in pinging /\ pinging' = pinging \ {k})
       /\ snapshots' # snapshots =>
              /\ pinging = {}
              /\ \A h \in 1..Len(hopStats) :
                    /\ Recomputed(hopStats[h])
                    /\ snapshots'[Len(snapshots')].hops[h] = SnapshotRow(hopStats[h])
       /\ (mtrPc' = "done" /\ mtrPc # "done") =>
              /\ pinging = {}
              /\ \A h \in 1..Len(hopStats) : Recomputed(hopStats[h])
              /\ mtrResult' = FinalFormat(hopStats)
      ]_vars

C22_Witness ==
    /\ mtrPc = "done" /\ progressCallback /\ cycles >= 2 /\ Len(hopStats) = 2
    /\ hopStats[1].received = 1 /\ hopStats[2].received = 2
    /\ Len(snapshots) = cycles

LivePositions == {h \in 1..Len(mtrHops) : Live(mtrHops[h].ip)}

\* C23: up to and including cycle N, executePing was called N times for
\* every hop with an address and never for a hop without one or with '*', a
\* pending probe belongs to a hop with an address, and a call of C cycles
\* over L hops with an address returns after C*L calls of executePing.
C23_OneProbePerLiveHopPerCycle ==
    /\ pinging \subseteq LivePositions
    /\ mtrPc \in {"cycle", "delay"} =>
          \A h \in 1..Len(mtrHops) : pinged[h] = IF h \in LivePositions THEN cycle ELSE 0
    /\ mtrPc = "done" =>
          /\ \A h \in 1..Len(mtrHops) : pinged[h] = IF h \in LivePositions THEN cycles ELSE 0
          /\ Sum(pinged) = cycles * Cardinality(LivePositions)

C23_Witness ==
    /\ mtrPc = "done" /\ cycles = 3 /\ Len(mtrHops) = 2
    /\ mtrHops[1].ip = "" /\ pinged = <<0, 3>>

\* C24 as stated: no cycle increments the sent counter of a hop without
\* address, so the hop shows sent = 0 in every snapshot.
C24_DeadHopSentZero ==
    /\ \A h \in 1..Len(hopStats) : ~Live(hopStats[h].ip) => hopStats[h].sent = 0
    /\ \A k \in 1..Len(snapshots) : \A h \in 1..Len(snapshots[k].hops) :
          ~Live(snapshots[k].hops[h].ip) => snapshots[k].hops[h].sent = 0

\* C24 amended: a hop without address is never probed, yet every cycle
\* increments its sent counter: the record holds sent = N from the start of
\* cycle N on and the snapshot of cycle N shows sent = N, with loss 100.
C24_DeadHopSentCountsCycles ==
    /\ \A h \in 1..Len(hopStats) :
          ~Live(hopStats[h].ip) =>
              /\ pinged[h] = 0 /\ hopStats[h].received = 0
              /\ mtrPc \in {"cycle", "delay"} => hopStats[h].sent = cycle
              /\ mtrPc = "done" => hopStats[h].sent = cycles
    /\ \A k \in 1..Len(snapshots) : \A h \in 1..Len(snapshots[k].hops) :
          ~Live(snapshots[k].hops[h].ip) =>
              /\ snapshots[k].hops[h].sent = snapshots[k].cycle
              /\ snapshots[k].hops[h].loss = 1000

C24_Witness ==
    /\ Len(snapshots) = 2 /\ mtrHops[1].ip = "*"
    /\ snapshots[1].hops[1].sent = 1 /\ snapshots[2].hops[1].sent = 2
    /\ pinged[1] = 0

\* C25: the hop the facade appends for the target is not dead: executePing
\* is called for it once in every cycle, so that it has sent = C after C
\* cycles, and once its probe of the cycle has settled its loss is
\* 100 * (sent - received) / sent.
C25_SyntheticHopProbed ==
    (runPc \in {"ping", "finished"} /\ mtrPc # "idle") =>
        \A h \in 1..Len(hopStats) :
            hopStats[h].rtt1 = "0 ms" =>
                /\ ~hopStats[h].isDead /\ hopStats[h].ip = targetIP
                /\ mtrPc \in {"cycle", "delay"} => (pinged[h] = cycle /\ hopStats[h].sent = cycle)
                /\ mtrPc = "done" => (pinged[h] = mtrDuration /\ hopStats[h].sent = mtrDuration)
                /\ h \notin pinging =>
                      hopStats[h].loss[1] * hopStats[h].sent =
                          (hopStats[h].sent - hopStats[h].received) * 100 * hopStats[h].loss[2]

C25_Witness ==
    /\ runPc = "finished" /\ mtrPc = "done" /\ mtrDuration = 2
    /\ hopStats[Len(hopStats)].rtt1 = "0 ms"
    /\ hopStats[Len(hopStats)].sent = 2 /\ hopStats[Len(hopStats)].received = 1
    /\ mtrResult[Len(mtrResult)].loss = 500

\* C26: runMtrCycles waits for the inter-cycle timer C - 1 times: during
\* cycle N it has waited N - 1 times; it waits after the snapshot of a cycle
\* N < C, with no probe pending and no probe of cycle N + 1 issued; and it
\* returns after C - 1 waits, none of them after the last cycle.
C26_DelaysBetweenCycles ==
    /\ mtrPc = "cycle" => delays = cycle - 1
    /\ mtrPc = "delay" =>
          /\ delays = cycle /\ cycle < cycles
          /\ pinging = {}
          /\ progressCallback => Len(snapshots) = cycle
          /\ \A h \in LivePositions : pinged[h] = cycle
    /\ mtrPc = "done" => delays = cycles - 1

C26_Witness ==
    /\ mtrPc = "delay" /\ cycle = 2 /\ cycles = 3 /\ delays = 2
    /\ progressCallback /\ Len(snapshots) = 2 /\ LivePositions # {}

\* what the holder of a delivered row reads while the records are stats: the
\* row is an object of numbers and a string, so its own fields; a row that
\* were a reference to a record would be read through the record
RowRead(row, stats) ==
    IF "shared" \in DOMAIN row
    THEN stats[CHOOSE h \in 1..Len(stats) : stats[h].hop = row.shared]
    ELSE row

SnapshotRead(snapshot, stats) ==
    [snapshot EXCEPT !.hops = [h \in 1..Len(snapshot.hops) |-> RowRead(snapshot.hops[h], stats)]]

\* C27: the snapshot handed to the callback is a copy: whatever a later step
\* writes to the records, every snapshot delivered so far stays delivered
\* and reads as it did before the step.
C27_SnapshotsAreCopies ==
    [][\A n \in 1..Len(snapshots) :
          /\ n <= Len(snapshots')
          /\ SnapshotRead(snapshots'[n], hopStats') = SnapshotRead(snapshots[n], hopStats)
      ]_vars

C27_Witness ==
    /\ mtrPc = "done" /\ Len(snapshots) = 3 /\ Len(hopStats) = 1
    /\ snapshots[1].hops[1].sent = 1 /\ snapshots[1].hops[1].loss = 0
    /\ hopStats[1].sent = 3 /\ hopStats[1].received = 1

\* the lines that decide the scan: an address other than the target, or the
\* target with a time or bytes/sequence marker
QualifyingLines(output, target) ==
    {k \in 1..Len(output) :
        /\ output[k].ip # ""
        /\ output[k].ip # target \/ output[k].time # Null \/ output[k].bytes}

\* C28: the close handler of probeHop decides by the first qualifying line
\* of the output: lines without address and lines with the bare target
\* address are passed over; if the first qualifying line has another address
\* the probe is a hop reply for it, whatever follows; if it has the target
\* address the probe reached the target; without a qualifying line the probe
\* is a timeout, '*'.
C28_FirstQualifyingLineWins ==
    probePc = "closed" =>
        LET q == QualifyingLines(probeOutput, probeTarget) IN
        IF q = {}
        THEN probeResult.ip = "*" /\ ~probeResult.reached
        ELSE LET first == CHOOSE k \in q : \A j \in q : k <= j
             IN  /\ probeResult.ip = probeOutput[first].ip
                 /\ probeResult.reached = (probeOutput[first].ip = probeTarget)

C28_Witness ==
    /\ probePc = "closed"
    /\ probeOutput = <<Line("a", Null, FALSE), Line(probeTarget, 23, TRUE)>>
    /\ probeResult.ip = "a" /\ ~probeResult.reached

\* C29 as stated: executePing resolves alive exactly when the output holds a
\* number followed by ms anywhere, with the first such number as the time;
\* otherwise it resolves not alive, without time.
C29_AliveIffAnyMs ==
    pingPc = "closed" =>
        /\ pingResult.alive <=> pingOutput # <<>>
        /\ pingResult.alive => pingResult.time = pingOutput[1].ms
        /\ ~pingResult.alive => pingResult.time = Null

\* the numbers followed by ms that stand right after <, >, = or white space
Delimited(output) == {k \in 1..Len(output) : output[k].before \in {"<", ">", "=", " "}}

\* C29 amended: executePing resolves alive exactly when the output holds a
\* number followed by ms that stands right after <, >, = or white space,
\* with the first such number as the time; otherwise, and when the process
\* emits 'error', it resolves not alive, without time.
C29_AliveIffDelimitedMs ==
    /\ pingPc = "closed" =>
          /\ pingResult.alive <=> Delimited(pingOutput) # {}
          /\ pingResult.alive =>
                pingResult.time =
                    pingOutput[CHOOSE k \in Delimited(pingOutput) :
                                  \A j \in Delimited(pingOutput) : k <= j].ms
          /\ ~pingResult.alive => pingResult.time = Null
    /\ pingPc = "failed" => (~pingResult.alive /\ pingResult.time = Null)

C29_Witness ==
    /\ pingPc = "closed" /\ pingOutput = <<Ms("/", 12), Ms(" ", 0)>>
    /\ pingResult.alive /\ pingResult.time = 0

\* C30: at every point of runMtrCycles, for every hop with received > 0,
\* best is the minimum, worst the maximum and sum the total of the RTTs
\* collected so far, avg is sum / received, and best <= avg <= worst.
C30_BestWorstSumOfSamples ==
    mtrPc # "idle" =>
        \A k \in 1..Len(hopStats) :
            LET stat == hopStats[k]
                samples == Elements(stat.rtts)
            IN  stat.received > 0 =>
                    /\ Len(stat.rtts) = stat.received
                    /\ stat.best \in samples /\ \A t \in samples : stat.best <= t
                    /\ stat.worst \in samples /\ \A t \in samples : t <= stat.worst
                    /\ stat.sum = Sum(stat.rtts)
                    /\ stat.avg[1] * stat.received = stat.sum * stat.avg[2]
                    /\ stat.best * stat.avg[2] <= stat.avg[1]
                    /\ stat.avg[1] <= stat.worst * stat.avg[2]

C30_Witness ==
    /\ mtrPc = "done"
    /\ \E k \in 1..Len(hopStats) :
          /\ hopStats[k].received = MaxCycles
          /\ hopStats[k].rtts[1] > hopStats[k].rtts[2]
          /\ hopStats[k].rtts[3] > hopStats[k].rtts[2]
          /\ hopStats[k].best < hopStats[k].worst

\* what a row shows for a best of Infinity that was formatted as it is
ShownInfinity == 10 * Infinity

\* C31: no row of a snapshot and no row of the final result reports best as
\* infinity; the row of a hop without a successful sample, in the snapshot
\* taken at the join and in the final result, reports best = 0.
C31_BestNeverInfinity ==
    /\ [](/\ \A n \in 1..Len(snapshots) : \A h \in 1..Len(snapshots[n].hops) :
                snapshots[n].hops[h].best \notin {Infinity, ShownInfinity}
          /\ \A h \in 1..Len(mtrResult) :
                /\ mtrResult[h].best \notin {Infinity, ShownInfinity}
                /\ hopStats[h].received = 0 => mtrResult[h].best = 0)
    /\ [][snapshots' # snapshots =>
              \A h \in 1..Len(hopStats) :
                  hopStats[h].received = 0 => snapshots'[Len(snapshots')].hops[h].best = 0
         ]_vars

C31_Witness ==
    /\ mtrPc = "done" /\ Len(snapshots) = 2 /\ Len(hopStats) = 2
    /\ hopStats[1].isDead /\ hopStats[1].best = Infinity
    /\ ~hopStats[2].isDead /\ hopStats[2].received = 0 /\ hopStats[2].best = Infinity
    /\ mtrResult[1].best = 0 /\ mtrResult[2].best = 0
    /\ snapshots[2].hops[2].best = 0

\* what the caller reads in the hop list it handed in: the hop objects, or
\* the statistics records where these are the hop objects themselves
HopsRead(hopList, stats) ==
    [k \in 1..Len(hopList) |->
        IF k <= Len(stats) /\ "inPlace" \in DOMAIN stats[k] THEN stats[k] ELSE hopList[k]]

\* C32: from the call of runMtrCycles on, the hop list handed in reads as it
\* was handed in, with the same hop objects of the same fields (index,
\* address), across every step and when the function has returned.
C32_InputUnchanged ==
    /\ [](mtrPc # "idle" => HopsRead(mtrHops, hopStats) \in HopListInputs)
    /\ [][mtrPc # "idle" =>
              /\ HopsRead(mtrHops', hopStats') = HopsRead(mtrHops, hopStats)
              /\ Len(mtrHops') = Len(hopStats')
              /\ \A k \in 1..Len(mtrHops') :
                    /\ mtrHops'[k].hop = hopStats'[k].hop
                    /\ mtrHops'[k].ip = hopStats'[k].ip
         ]_vars

C32_Witness ==
    /\ mtrPc = "done" /\ cycles = 3
    /\ mtrHops = <<Hop(1, "a"), Hop(2, "t")>>
    /\ hopStats[1].received = 2 /\ hopStats[2].received = 0 /\ hopStats[2].sent = 3

\* C33: in every state of runMtrCycles and for every hop,
\* received <= sent <= cycle, and rtts holds one sample per received reply.
C33_CountersOrdered ==
    mtrPc # "idle" =>
        \A k \in 1..Len(hopStats) :
            /\ hopStats[k].received <= hopStats[k].sent
            /\ hopStats[k].sent <= cycle
            /\ Len(hopStats[k].rtts) = hopStats[k].received

C33_Witness ==
    /\ mtrPc = "cycle" /\ cycle = 3 /\ Len(hopStats) = 2
    /\ 1 \in pinging /\ hopStats[1].sent = 3 /\ hopStats[1].received = 2
    /\ 2 \notin pinging /\ hopStats[2].sent = 3 /\ hopStats[2].received = 1

\* C34 as stated: whenever a run() call has completed, the diagnosis list of
\* the report holds exactly one entry per configured domain, in the order of
\* targetDomains.
C34_OneEntryPerDomain ==
    runPc = "finished" =>
        /\ Len(diagnosis) = Len(targetDomains)
        /\ \A k \in 1..Len(diagnosis) : diagnosis[k].domain = targetDomains[k]

\* the events that end the test of a target
TerminalOutcome(k) ==
    \/ events[k].step = "mtr_ping" /\ events[k].status = "completed"
    \/ events[k].step = "mtr_test" /\ events[k].status \in {"failed", "skipped"}

\* C35 as stated: between 'target_diagnosis starting' and 'target_diagnosis
\* completed' of a domain exactly one terminal outcome is emitted
\* ('mtr_ping completed', 'mtr_test failed' or 'mtr_test skipped'), and in
\* every report entry mtr.executed is true exactly when mtr.error is null.
C35_OneTerminalOutcome ==
    /\ \A c \in 1..Len(events) :
          (events[c].step = "target_diagnosis" /\ events[c].status = "completed") =>
              \E s \in 1..(c - 1) :
                  /\ events[s] = Event("target_diagnosis", events[c].domain, "starting", 0)
                  /\ \A j \in (s + 1)..(c - 1) : events[j].step # "target_diagnosis"
                  /\ Cardinality({k \in s..c : TerminalOutcome(k)
                                                /\ events[k].domain = events[c].domain}) = 1
    /\ \A e \in 1..Len(diagnosis) :
          diagnosis[e].mtr.executed <=> diagnosis[e].mtr.error = NoError

\* the position of a domain in targetDomains (0 for the events of no domain)
DomainPosition(domain) ==
    IF \E p \in 1..Len(targetDomains) : targetDomains[p] = domain
    THEN CHOOSE p \in 1..Len(targetDomains) : targetDomains[p] = domain
    ELSE 0

\* C36: the events of a run are grouped by domain in the order of
\* targetDomains, every event of a domain coming after 'target_diagnosis
\* completed' of the domain before it; whatever the outcome of a domain (DNS
\* failure, discovery failure, aggregation failure or success), the step
\* that records its entry starts the next domain, or finishes the run after
\* the last one, and the finished run has an entry for every domain.
C36_SequentialAndIsolated ==
    /\ [](/\ \A e \in 1..Len(events) :
                LET p == DomainPosition(events[e].domain) IN
                /\ p > 1 => \E c \in 1..(e - 1) :
                               events[c] = Event("target_diagnosis", targetDomains[p - 1], "completed", 0)
                /\ p > 0 => \A f \in 1..(e - 1) : DomainPosition(events[f].domain) <= p
          /\ runPc = "finished" =>
                /\ Len(diagnosis) = Len(targetDomains)
                /\ \A k \in 1..Len(diagnosis) : diagnosis[k].domain = targetDomains[k])
    /\ [][diagnosis' # diagnosis =>
              LET k == Len(diagnosis') IN
              /\ diagnosis' = Append(diagnosis, diagnosis'[k])
              /\ diagnosis'[k].domain = targetDomains[k]
              /\ events'[Len(events') - (IF k < Len(targetDomains) THEN 2 ELSE 1)]
                    = Event("target_diagnosis", targetDomains[k], "completed", 0)
              /\ IF k < Len(targetDomains)
                 THEN /\ runPc' = "dns" /\ domIdx' = k + 1
                      /\ events'[Len(events') - 1]
                            = Event("target_diagnosis", targetDomains[k + 1], "starting", 0)
                 ELSE runPc' = "finished"
         ]_vars

C36_Witness ==
    /\ runPc = "finished" /\ Len(diagnosis) = 2
    /\ diagnosis[1].dns.resolved /\ ~diagnosis[1].mtr.executed
    /\ diagnosis[1].mtr.error = CallbackFailure
    /\ diagnosis[2].mtr.executed /\ diagnosis[2].mtr.error = NoError
    /\ Len(diagnosis[2].mtr.hops) = 1 /\ mtrDuration = 2

\* C37: a domain whose DNS lookup failed has no mtr_trace, mtr_ping or
\* mtr_ping_progress event, has 'mtr_test skipped' as its only mtr_test
\* event, and has an entry with dns.resolved false, mtr.executed false, no
\* hops and the error "Skipped due to DNS failure"; the step in which the
\* lookup fails spawns no discovery probe, calls no executePing, and leaves
\* runTraceroute and runMtrCycles as they were.
C37_DnsFailureSkipsTest ==
    /\ [](\A k \in 1..Len(events) :
              (events[k].step = "dns_lookup" /\ events[k].status = "failed") =>
                  LET d == events[k].domain IN
                  /\ EventsOf(d, "mtr_trace") = {}
                  /\ EventsOf(d, "mtr_ping") = {}
                  /\ EventsOf(d, "mtr_ping_progress") = {}
                  /\ EventsOf(d, "mtr_test") = {k + 1}
                  /\ events[k + 1].status = "skipped"
                  /\ \E e \in 1..Len(diagnosis) :
                        /\ diagnosis[e].domain = d
                        /\ ~diagnosis[e].dns.resolved
                        /\ ~diagnosis[e].mtr.executed
                        /\ diagnosis[e].mtr.hops = <<>>
                        /\ diagnosis[e].mtr.error = "Skipped due to DNS failure")
    /\ [][(\E k \in (Len(events) + 1)..Len(events') :
               events'[k].step = "dns_lookup" /\ events'[k].status = "failed") =>
              /\ runPc = "dns"
              /\ runPc' \in {"dns", "finished"}
              /\ spawned' = spawned /\ pinged' = pinged
              /\ UNCHANGED <<trVars, mtrVars>>
         ]_vars

C37_Witness ==
    /\ runPc = "finished" /\ Len(diagnosis) = 2
    /\ diagnosis[1].mtr.executed /\ spawned # <<>> /\ mtrPc = "done"
    /\ ~diagnosis[2].dns.resolved
    /\ diagnosis[2].mtr.error = "Skipped due to DNS failure"
    /\ events[Len(events) - 2] = Event("mtr_test", "d2", "skipped", 0)

\* C38: once the hop count of a target is announced ('mtr_trace completed'
\* count, 'mtr_ping running' total), the two agree and every snapshot of the
\* target has that many rows; when its aggregation has completed, the final
\* result, the 'mtr_ping completed' event and the report entry have that
\* many hops too.
C38_HopCountConsistent ==
    \A d \in Elements(targetDomains) :
        \A r \in EventsOf(d, "mtr_ping") :
            events[r].status = "running" =>
                LET total == events[r].n IN
                /\ r > 1 /\ events[r - 1] = Event("mtr_trace", d, "completed", total)
                /\ total = Len(mtrHops) /\ total >= 1
                /\ Cardinality(EventsOf(d, "mtr_ping_progress")) = Len(snapshots)
                /\ \A n \in 1..Len(snapshots) : Len(snapshots[n].hops) = total
                /\ mtrPc = "done" => Len(mtrResult) = total
                /\ \A c \in EventsOf(d, "mtr_ping") :
                      events[c].status = "completed" =>
                          /\ events[c].n = total
                          /\ \E e \in 1..Len(diagnosis) :
                                /\ diagnosis[e].domain = d
                                /\ diagnosis[e].mtr.executed
                                /\ Len(diagnosis[e].mtr.hops) = total

C38_Witness ==
    /\ runPc = "finished" /\ diagnosis[1].mtr.executed
    /\ Len(diagnosis[1].mtr.hops) = 3 /\ Len(snapshots) = 2
    /\ \E r \in 1..Len(events) : events[r] = Event("mtr_ping", "d1", "running", 3)
    /\ finalHops[Len(finalHops)].ip # targetIP

\* C39: when the progress callback threw on the snapshot of cycle N,
\* runMtrCycles is rejected with N snapshots delivered, the last one of cycle
\* N, every hop probed at most N times, no probe pending and no result
\* returned; nothing of it changes afterwards; and the facade's next step
\* records the target with mtr.executed false, no hops and the message of
\* the error, emits 'mtr_test failed' and no 'mtr_ping completed'.
C39_ThrowingCallbackStopsAggregation ==
    /\ [](mtrPc = "rejected" =>
              /\ pinging = {} /\ mtrResult = <<>>
              /\ cycle <= cycles
              /\ Len(snapshots) = cycle /\ snapshots[cycle].cycle = cycle
              /\ \A k \in 1..Len(hopStats) : pinged[k] <= cycle /\ hopStats[k].sent = cycle
              /\ delays = cycle - 1
              /\ runPc \in {"ping", "finished"}
              /\ runPc = "finished" =>
                    /\ ~diagnosis[1].mtr.executed
                    /\ diagnosis[1].mtr.hops = <<>>
                    /\ diagnosis[1].mtr.error = CallbackFailure
                    /\ \E k \in EventsOf(targetDomains[1], "mtr_test") : events[k].status = "failed"
                    /\ \A k \in EventsOf(targetDomains[1], "mtr_ping") : events[k].status = "running"
                    /\ Cardinality(EventsOf(targetDomains[1], "mtr_ping_progress")) = cycle)
    /\ [][mtrPc = "rejected" =>
              /\ UNCHANGED mtrVars
              /\ runPc = "ping" /\ runPc' = "finished" /\ Len(diagnosis') = 1
         ]_vars

C39_Witness ==
    /\ runPc = "finished" /\ mtrPc = "rejected"
    /\ cycles = 2 /\ cycle = 1 /\ Len(snapshots) = 1 /\ Len(hopStats) = 2
    /\ hopStats[1].received = 1 /\ hopStats[2].sent = 1
    /\ diagnosis[1].mtr.error = CallbackFailure /\ ~diagnosis[1].mtr.executed

\* C40: with every spawned probe eventually closing or failing and a
\* callback that does not throw, run() eventually resolves; a discovery that
\* returned spawned one, two or three batches of ten probes, and an
\* aggregation that returned ran exactly the configured number of cycles.
C40_RunResolves ==
    /\ <>(runPc = "finished")
    /\ [](/\ trPc = "done" =>
                /\ Len(spawned) \in {k * BATCH_SIZE : k \in 1..3}
                /\ Len(spawned) = i + BATCH_SIZE - 1
          /\ mtrPc \in {"idle", "cycle", "delay", "done"}
          /\ mtrPc = "done" =>
                /\ cycles = mtrDuration
                /\ cycle = cycles + 1
                /\ Len(snapshots) = cycles /\ snapshots[cycles].cycle = cycles
                /\ \A k \in 1..Len(hopStats) : hopStats[k].sent = cycles
          /\ runPc = "finished" => Len(diagnosis) = Len(targetDomains))

C40_Witness ==
    /\ runPc = "finished" /\ mtrDuration = 2 /\ cycles = 2
    /\ Len(spawned) = MAX_HOPS /\ trPc = "done" /\ mtrPc = "done"
    /\ Len(snapshots) = 2 /\ diagnosis[1].mtr.executed
====
